---- MODULE Spec2Model ----
(***************************************************************************)
(* A model of markdown2text.py: the removal ledger                         *)
(* (StrippedContentLogger), the line scanners (safe_remove_code_blocks,    *)
(* safe_remove_emphasis, conservative_remove_tables) and the sixteen steps *)
(* of convert_markdown_to_text.                                            *)
(*                                                                         *)
(* A Python str is a sequence of one-character strings.  The patterns the  *)
(* program hands to the re module are written as sequences of pattern      *)
(* nodes and matched by a backtracking matcher with re's priorities        *)
(* (leftmost match, greedy / lazy repetition, capture groups).             *)
(***************************************************************************)
EXTENDS Integers, Sequences, FiniteSets, TLC

\* ------------------------------------------------------------------------
\* Python str primitives
\* ------------------------------------------------------------------------

\* The characters str.strip() removes and \s matches.
Whitespace == {" ", "\t", "\n", "\r"}

NL == "\n"

\* s[a:b] with 1-based a and exclusive 1-based b.
Slice(s, a, b) == IF b <= a THEN <<>> ELSE SubSeq(s, a, b - 1)

RECURSIVE LStripFrom(_, _)
LStripFrom(s, i) ==
  IF i > Len(s) THEN <<>>
  ELSE IF s[i] \in Whitespace THEN LStripFrom(s, i + 1)
  ELSE SubSeq(s, i, Len(s))

\* str.lstrip()
LStrip(s) == LStripFrom(s, 1)

RECURSIVE RStripTo(_, _)
RStripTo(s, j) ==
  IF j < 1 THEN <<>>
  ELSE IF s[j] \in Whitespace THEN RStripTo(s, j - 1)
  ELSE SubSeq(s, 1, j)

\* str.rstrip()
RStrip(s) == RStripTo(s, Len(s))

\* str.strip()
Strip(s) == RStrip(LStrip(s))

\* str.startswith(p)
StartsWith(s, p) == Len(s) >= Len(p) /\ SubSeq(s, 1, Len(p)) = p

\* str.endswith(p)
EndsWith(s, p) ==
  Len(s) >= Len(p) /\ SubSeq(s, Len(s) - Len(p) + 1, Len(s)) = p

\* c in s
Contains(s, c) == \E i \in 1..Len(s) : s[i] = c

\* Where the separator stands in s, and where its k-th occurrence does (the
\* 0th: before s, the one after the last: behind s).
SepPositions(s, sep) == {i \in 1..Len(s) : s[i] = sep}
NthSep(s, sep, k) ==
  IF k = 0 THEN 0
  ELSE IF k > Cardinality(SepPositions(s, sep)) THEN Len(s) + 1
  ELSE CHOOSE i \in SepPositions(s, sep) :
         Cardinality({j \in SepPositions(s, sep) : j <= i}) = k

\* s.split(sep) for a one-character separator: never empty, "" splits to [""].
Split(s, sep) ==
  [k \in 1..(Cardinality(SepPositions(s, sep)) + 1) |->
     SubSeq(s, NthSep(s, sep, k - 1) + 1, NthSep(s, sep, k) - 1)]

RECURSIVE JoinFrom(_, _, _)
JoinFrom(ls, sep, i) ==
  IF i > Len(ls) THEN <<>>
  ELSE IF i = Len(ls) THEN ls[i]
  ELSE ls[i] \o <<sep>> \o JoinFrom(ls, sep, i + 1)

\* sep.join(ls)
Join(ls, sep) == JoinFrom(ls, sep, 1)

SplitLines(s) == Split(s, NL)
JoinLines(ls) == Join(ls, NL)

\* A str literal as the sequence of its characters.
Str(lit) == [i \in 1..Len(lit) |-> SubSeq(lit, i, i)]

\* ------------------------------------------------------------------------
\* The re module: pattern nodes
\* ------------------------------------------------------------------------

\* No upper limit on a repetition (*, +).
Unbounded == -1

\* One character of the set cs ([...]), or one outside it ([^...]).
In(cs)    == [t |-> "chr", cs |-> cs, neg |-> FALSE]
NotIn(cs) == [t |-> "chr", cs |-> cs, neg |-> TRUE]
\* A literal character.
Ch(c)     == In({c})
\* cls{lo,hi}, greedy, and cls{lo,hi}?, lazy; cls is In(..) or NotIn(..).
Rep(cls, lo, hi) ==
  [t |-> "rep", cs |-> cls.cs, neg |-> cls.neg, lo |-> lo, hi |-> hi, lazy |-> FALSE]
RepLazy(cls, lo, hi) ==
  [t |-> "rep", cs |-> cls.cs, neg |-> cls.neg, lo |-> lo, hi |-> hi, lazy |-> TRUE]
Star(cls) == Rep(cls, 0, Unbounded)
Plus(cls) == Rep(cls, 1, Unbounded)
\* ( and ) of capture group g.
Open(g)  == [t |-> "open", g |-> g]
Close(g) == [t |-> "close", g |-> g]
\* ^ and $ under re.MULTILINE (and, on a text without newlines, without it).
Bol == [t |-> "bol"]
Eol == [t |-> "eol"]
\* (?<!c) and (?!c)
NotAfter(c)  == [t |-> "nlb", cs |-> {c}]
NotBefore(c) == [t |-> "nla", cs |-> {c}]
\* (?:body)* and (?:body)+, greedy; body is a sequence of nodes that consumes
\* at least one character.
GroupStar(body) == [t |-> "grep", body |-> body, lo |-> 0]
GroupPlus(body) == [t |-> "grep", body |-> body, lo |-> 1]

\* . (any character but a newline)
Dot == NotIn({NL})
\* \s and \d
Space == In(Whitespace)
Digits == {"0", "1", "2", "3", "4", "5", "6", "7", "8", "9"}

\* ------------------------------------------------------------------------
\* The re module: matching
\* ------------------------------------------------------------------------

Fail == [ok |-> FALSE]

\* body(x), x being evaluated first and once: a Python local holds a value.
With(x, body(_)) == CASE x = x -> body(x)

ClassHas(n, c) == IF n.neg THEN c \notin n.cs ELSE c \in n.cs

\* How many characters of s[lo..hi], from lo on, belong to the class of n:
\* those of the first half and, when all of it does, those of the second.
RECURSIVE RunIn(_, _, _, _)
RunIn(n, s, lo, hi) ==
  IF lo > hi THEN 0
  ELSE IF lo = hi THEN (IF ClassHas(n, s[lo]) THEN 1 ELSE 0)
  ELSE With(RunIn(n, s, lo, (lo + hi) \div 2), LAMBDA left :
         IF left < (lo + hi) \div 2 - lo + 1 THEN left
         ELSE left + RunIn(n, s, (lo + hi) \div 2 + 1, hi))

\* How many characters from position i on belong to the class of n, at most
\* cap of them (cap = Unbounded: no limit).
RunLen(n, s, i, cap) ==
  RunIn(n, s, i,
        IF cap = Unbounded \/ i + cap - 1 > Len(s) THEN Len(s) ELSE i + cap - 1)

\* M(nodes, s, i, caps): the match re finds for the node sequence at position
\* i (the next character to read), trying alternatives in re's order;
\* [ok, end, caps], end being the position after the match and caps the
\* groups' <<start, end>>.
RECURSIVE M(_, _, _, _)
RECURSIVE TryRep(_, _, _, _, _, _, _)

\* The repetition takes k characters, on failure the next count in the
\* direction step, and so on up to last: the first of these counts with which
\* the rest matches, looked for in the first half of them and then in the
\* second.
TryRep(rest, s, i, caps, k, last, step) ==
  IF k = last THEN M(rest, s, i + k, caps)
  ELSE With(TryRep(rest, s, i, caps,
                   k, k + step * (((last - k) * step) \div 2), step),
            LAMBDA r :
              IF r.ok THEN r
              ELSE TryRep(rest, s, i, caps,
                          k + step * (((last - k) * step) \div 2) + step, last, step))

M(nodes, s, i, caps) ==
  IF nodes = <<>> THEN [ok |-> TRUE, end |-> i, caps |-> caps]
  ELSE
    LET n == Head(nodes)
        rest == Tail(nodes)
    IN
    CASE n.t = "chr" ->
           IF i <= Len(s) /\ ClassHas(n, s[i]) THEN M(rest, s, i + 1, caps)
           ELSE Fail
      [] n.t = "rep" ->
           With(RunLen(n, s, i, n.hi), LAMBDA run :
             IF run < n.lo THEN Fail
             ELSE IF n.lazy THEN TryRep(rest, s, i, caps, n.lo, run, 1)
             ELSE TryRep(rest, s, i, caps, run, n.lo, -1))
      [] n.t = "open" ->
           M(rest, s, i, [caps EXCEPT ![n.g] = <<i, i>>])
      [] n.t = "close" ->
           M(rest, s, i, [caps EXCEPT ![n.g] = <<caps[n.g][1], i>>])
      [] n.t = "bol" ->
           IF i = 1 \/ s[i - 1] = NL THEN M(rest, s, i, caps) ELSE Fail
      [] n.t = "eol" ->
           IF i = Len(s) + 1 \/ s[i] = NL THEN M(rest, s, i, caps) ELSE Fail
      [] n.t = "nlb" ->
           IF i > 1 /\ s[i - 1] \in n.cs THEN Fail ELSE M(rest, s, i, caps)
      [] n.t = "nla" ->
           IF i <= Len(s) /\ s[i] \in n.cs THEN Fail ELSE M(rest, s, i, caps)
      [] n.t = "grep" ->
           \* one more round of the body first (greedy), then the rest
           With(M(n.body \o <<[n EXCEPT !.lo = 0]>> \o rest, s, i, caps), LAMBDA more :
             IF more.ok THEN more
             ELSE IF n.lo = 0 THEN M(rest, s, i, caps)
             ELSE Fail)

\* Capture groups are numbered 1..MaxGroups; an unset group is <<0, 0>>.
MaxGroups == 3
NoCaps == [g \in 1..MaxGroups |-> <<0, 0>>]

\* re.match(pattern, s): a match at the start of s, or none.
ReMatch(re, s) == M(re, s, 1, NoCaps)

\* re.search from position i on: the leftmost match, as
\* [ok, start, end, caps].
RECURSIVE SearchIn(_, _, _, _)
SearchIn(re, s, lo, hi) ==
  IF lo > hi THEN Fail
  ELSE IF lo = hi
  THEN With(M(re, s, lo, NoCaps), LAMBDA r :
         IF r.ok THEN [ok |-> TRUE, start |-> lo, end |-> r.end, caps |-> r.caps]
         ELSE Fail)
  ELSE With(SearchIn(re, s, lo, (lo + hi) \div 2), LAMBDA m :
         IF m.ok THEN m ELSE SearchIn(re, s, (lo + hi) \div 2 + 1, hi))

SearchFrom(re, s, i) == SearchIn(re, s, i, Len(s) + 1)

ReSearch(re, s) == SearchFrom(re, s, 1)

\* The text of a match and of its group g.
Group0(s, m) == Slice(s, m.start, m.end)
Group(s, m, g) == Slice(s, m.caps[g][1], m.caps[g][2])

\* The successive non-overlapping matches of re in s, leftmost first.  Every
\* pattern of the program consumes at least one character, so the scan
\* resumes where the last match ended.
RECURSIVE MatchesFrom(_, _, _)
MatchesFrom(re, s, i) ==
  With(SearchFrom(re, s, i), LAMBDA m :
    IF ~m.ok THEN <<>>
    ELSE <<m>> \o MatchesFrom(re, s, m.end))

Matches(re, s) == MatchesFrom(re, s, 1)

\* re.findall for a pattern read through group g (g = 0: the whole match).
FindAll(re, s, g) ==
  With(Matches(re, s), LAMBDA ms :
    [k \in 1..Len(ms) |-> IF g = 0 THEN Group0(s, ms[k]) ELSE Group(s, ms[k], g)])

\* s with match ms[k] replaced by repls[k], for every k.
RECURSIVE SubFrom(_, _, _, _, _)
SubFrom(ms, repls, k, s, i) ==
  IF k > Len(ms) THEN Slice(s, i, Len(s) + 1)
  ELSE Slice(s, i, ms[k].start) \o repls[k]
       \o SubFrom(ms, repls, k + 1, s, ms[k].end)

\* re.sub with the replacement template r'\g' (g = 0: the empty template '').
ReSub(re, g, s) ==
  With(Matches(re, s), LAMBDA ms :
    SubFrom(ms, [k \in 1..Len(ms) |-> IF g = 0 THEN <<>> ELSE Group(s, ms[k], g)],
            1, s, 1))

\* ------------------------------------------------------------------------
\* StrippedContentLogger
\* ------------------------------------------------------------------------

\* StrippedContentLogger(enabled): sections is the dict, kept as the sequence
\* of its (key, list) pairs in insertion order.
NewLogger(enabled) == [enabled |-> enabled, sections |-> <<>>]

SectionNames(lg) == {lg.sections[k].name : k \in 1..Len(lg.sections)}

SectionIndex(lg, name) ==
  CHOOSE k \in 1..Len(lg.sections) : lg.sections[k].name = name

\* self.sections[name], or the empty list for a key the dict does not hold.
Section(lg, name) ==
  IF name \in SectionNames(lg) THEN lg.sections[SectionIndex(lg, name)].items
  ELSE <<>>

\* log had it made the key before looking at the content.
LogKeyFirst(lg, step_name, removed_content) ==
  IF ~lg.enabled THEN lg
  ELSE
    LET withKey ==
          IF step_name \notin SectionNames(lg)
          THEN Append(lg.sections, [name |-> step_name, items |-> <<>>])
          ELSE lg.sections
        k == CHOOSE j \in 1..Len(withKey) : withKey[j].name = step_name
    IN [lg EXCEPT !.sections =
          IF Strip(removed_content) = <<>> THEN withKey
          ELSE [withKey EXCEPT ![k].items = Append(@, removed_content)]]

\* log(step_name, removed_content)
Log(lg, step_name, removed_content) ==
  IF ~lg.enabled \/ Strip(removed_content) = <<>> THEN lg
  ELSE
    LET withKey ==
          IF step_name \notin SectionNames(lg)
          THEN Append(lg.sections, [name |-> step_name, items |-> <<>>])
          ELSE lg.sections
        k == CHOOSE j \in 1..Len(withKey) : withKey[j].name = step_name
    IN [lg EXCEPT !.sections =
          [withKey EXCEPT ![k].items = Append(@, removed_content)]]

\* for match in matches: logger.log(step_name, match)
RECURSIVE LogAll(_, _, _)
LogAll(lg, step_name, contents) ==
  IF contents = <<>> THEN lg
  ELSE LogAll(Log(lg, step_name, Head(contents)), step_name, Tail(contents))

\* ------------------------------------------------------------------------
\* safe_remove_code_blocks
\* ------------------------------------------------------------------------

\* The backtick, which a TLA+ string cannot hold: one character like the others.
Backtick == "BACKTICK"

Fence == <<Backtick, Backtick, Backtick>>
Placeholder == Str("[CODE BLOCK]")

\* The loop's variables before its first iteration.
CodeBlockStart(lg) ==
  [result_lines |-> <<>>, in_code_block |-> FALSE, code_block_start_line |-> -1,
   current_code_block |-> <<>>, logger |-> lg]

\* The loop body had it written the placeholder when a block ends instead of
\* when it starts.
CodeBlockLineOnClose(st, i, line) ==
  IF StartsWith(Strip(line), Fence) THEN
    IF ~st.in_code_block THEN
      [st EXCEPT !.in_code_block = TRUE,
                 !.code_block_start_line = i,
                 !.current_code_block = <<line>>]
    ELSE
      [st EXCEPT !.logger = Log(@, "code_blocks",
                                JoinLines(Append(st.current_code_block, line))),
                 !.in_code_block = FALSE,
                 !.current_code_block = <<>>,
                 !.result_lines = Append(@, Placeholder)]
  ELSE IF st.in_code_block THEN
    [st EXCEPT !.current_code_block = Append(@, line)]
  ELSE
    [st EXCEPT !.result_lines = Append(@, line)]

\* One iteration of the loop, on line number i (0-based) holding line.
CodeBlockLine(st, i, line) ==
  IF StartsWith(Strip(line), Fence) THEN
    IF ~st.in_code_block THEN
      [st EXCEPT !.in_code_block = TRUE,
                 !.code_block_start_line = i,
                 !.current_code_block = <<line>>,
                 !.result_lines = Append(@, Placeholder)]
    ELSE
      [st EXCEPT !.logger = Log(@, "code_blocks",
                                JoinLines(Append(st.current_code_block, line))),
                 !.in_code_block = FALSE,
                 !.current_code_block = <<>>]
  ELSE IF st.in_code_block THEN
    [st EXCEPT !.current_code_block = Append(@, line)]
  ELSE
    [st EXCEPT !.result_lines = Append(@, line)]

RECURSIVE CodeBlockLoop(_, _, _)
CodeBlockLoop(st, lines, k) ==
  IF k > Len(lines) THEN st
  ELSE CodeBlockLoop(CodeBlockLine(st, k - 1, lines[k]), lines, k + 1)

\* The end of the call had the warning named code_block_start_line as it is
\* kept (0-based).
CodeBlockFinishZeroBased(st) ==
  [text |-> JoinLines(st.result_lines),
   logger |-> IF st.in_code_block /\ st.current_code_block # <<>>
              THEN Log(st.logger, "code_blocks_unclosed",
                       JoinLines(st.current_code_block))
              ELSE st.logger,
   warnings |-> IF st.in_code_block THEN <<st.code_block_start_line>>
                ELSE <<>>]

\* After the loop: the text returned, the logger as the call leaves it, and
\* the line numbers of the warnings written to stderr.
CodeBlockFinish(st) ==
  [text |-> JoinLines(st.result_lines),
   logger |-> IF st.in_code_block /\ st.current_code_block # <<>>
              THEN Log(st.logger, "code_blocks_unclosed",
                       JoinLines(st.current_code_block))
              ELSE st.logger,
   warnings |-> IF st.in_code_block THEN <<st.code_block_start_line + 1>>
                ELSE <<>>]

\* safe_remove_code_blocks(text, logger)
SafeRemoveCodeBlocks(text, lg) ==
  CodeBlockFinish(CodeBlockLoop(CodeBlockStart(lg), SplitLines(text), 1))

\* ------------------------------------------------------------------------
\* safe_remove_emphasis
\* ------------------------------------------------------------------------

\* The longest interior an inline span may have.
SpanCap == 125

\* The text between two delimiters: {1,125}? of anything but the delimiter's
\* character and a newline, in group 1.
Interior(c) == <<Open(1), RepLazy(NotIn({c, NL}), 1, SpanCap), Close(1)>>

Lit(lit) == [i \in 1..Len(lit) |-> Ch(SubSeq(lit, i, i))]

\* r'\*\*\*([^*\n]{1,125}?)\*\*\*'
BoldItalicRe == Lit("***") \o Interior("*") \o Lit("***")
\* r'\*\*([^*\n]{1,125}?)\*\*'
BoldAsterisksRe == Lit("**") \o Interior("*") \o Lit("**")
\* r'__([^_\n]{1,125}?)__'
BoldUnderscoresRe == Lit("__") \o Interior("_") \o Lit("__")
\* The italic pattern had it no lookbehind and no lookahead.
ItalicAsterisksBareRe == Lit("*") \o Interior("*") \o Lit("*")
\* r'(?<!\*)\*([^*\n]{1,125}?)\*(?!\*)'
ItalicAsterisksRe ==
  <<NotAfter("*")>> \o Lit("*") \o Interior("*") \o Lit("*") \o <<NotBefore("*")>>
\* r'(?<!_)_([^_\n]{1,125}?)_(?!_)'
ItalicUnderscoresRe ==
  <<NotAfter("_")>> \o Lit("_") \o Interior("_") \o Lit("_") \o <<NotBefore("_")>>

\* f"{delim}{match}{delim}" for every match
Wrapped(delim, matches) ==
  [k \in 1..Len(matches) |-> Str(delim) \o matches[k] \o Str(delim)]

\* The five rounds of the loop body, in the order of the source: the pattern,
\* the category its matches are logged under, and the delimiter of the
\* f-string that rebuilds the fragment.
EmphasisKinds ==
  << [re |-> BoldItalicRe, step_name |-> "bold_italic", delim |-> "***"],
     [re |-> BoldAsterisksRe, step_name |-> "bold_asterisks", delim |-> "**"],
     [re |-> BoldUnderscoresRe, step_name |-> "bold_underscores", delim |-> "__"],
     [re |-> ItalicAsterisksRe, step_name |-> "italic_asterisks", delim |-> "*"],
     [re |-> ItalicUnderscoresRe, step_name |-> "italic_underscores", delim |-> "_"] >>

\* One findall / log / sub round: every match of the pattern logged as
\* delim + group 1 + delim, and replaced by group 1.
EmphasisKind(kind, line, lg) ==
  [line |-> ReSub(kind.re, 1, line),
   logger |-> LogAll(lg, kind.step_name,
                     Wrapped(kind.delim, FindAll(kind.re, line, 1)))]

\* Rounds k.. of the loop body on processed_line
RECURSIVE EmphasisRounds(_, _, _)
EmphasisRounds(k, processed_line, lg) ==
  IF k > Len(EmphasisKinds) THEN [line |-> processed_line, logger |-> lg]
  ELSE With(EmphasisKind(EmphasisKinds[k], processed_line, lg), LAMBDA r :
         EmphasisRounds(k + 1, r.line, r.logger))

\* A loop that maps every line through body(line, logger) -> [line, logger]
\* and collects the lines; EmphasisLoop is that loop for EmphasisLine.
RECURSIVE EmphasisLoop(_, _, _, _)
EmphasisLoop(lines, k, out, lg) ==
  IF k > Len(lines) THEN [text |-> JoinLines(out), logger |-> lg]
  ELSE With(EmphasisRounds(1, lines[k], lg), LAMBDA r :
         EmphasisLoop(lines, k + 1, Append(out, r.line), r.logger))

\* safe_remove_emphasis(text, logger)
SafeRemoveEmphasis(text, lg) == EmphasisLoop(SplitLines(text), 1, <<>>, lg)

\* ------------------------------------------------------------------------
\* conservative_remove_tables
\* ------------------------------------------------------------------------

\* r'^[\s\-:|\|]*$'
TableInteriorRe == <<Bol, Star(In(Whitespace \cup {"-", ":", "|"})), Eol>>
\* r'^:?-+:?$'
TableCellRe == <<Bol, Rep(Ch(":"), 0, 1), Plus(Ch("-")), Rep(Ch(":"), 0, 1), Eol>>

\* [part.strip() for part in content.split('|') if part.strip()]
TableParts(content) ==
  LET cells == Split(content, "|")
      kept == SelectSeq(cells, LAMBDA c : Strip(c) # <<>>)
  IN [k \in 1..Len(kept) |-> Strip(kept[k])]

\* is_table_separator had it not asked for two parts.
IsTableSeparatorOfAnyWidth(line) ==
  LET stripped_line == Strip(line) IN
  /\ StartsWith(stripped_line, <<"|">>)
  /\ EndsWith(stripped_line, <<"|">>)
  /\ LET content_between_pipes == Slice(stripped_line, 2, Len(stripped_line))
         parts == TableParts(content_between_pipes)
     IN /\ ReMatch(TableInteriorRe, content_between_pipes).ok
        /\ Contains(content_between_pipes, "-")
        /\ \A k \in 1..Len(parts) : ReMatch(TableCellRe, Strip(parts[k])).ok

\* is_table_separator for one line
IsTableSeparator(line) ==
  LET stripped_line == Strip(line) IN
  /\ StartsWith(stripped_line, <<"|">>)
  /\ EndsWith(stripped_line, <<"|">>)
  /\ LET content_between_pipes == Slice(stripped_line, 2, Len(stripped_line))
         parts == TableParts(content_between_pipes)
     IN /\ ReMatch(TableInteriorRe, content_between_pipes).ok
        /\ Contains(content_between_pipes, "-")
        /\ Len(parts) >= 2
        /\ \A k \in 1..Len(parts) : ReMatch(TableCellRe, Strip(parts[k])).ok

\* The loop's variables before its first iteration.
TableStart(lg) == [result_lines |-> <<>>, logger |-> lg]

\* One iteration of the loop
TableLine(st, line) ==
  IF IsTableSeparator(line)
  THEN [st EXCEPT !.logger = Log(@, "table_separators", line)]
  ELSE [st EXCEPT !.result_lines = Append(@, line)]

RECURSIVE TableLoop(_, _, _)
TableLoop(st, lines, k) ==
  IF k > Len(lines) THEN st
  ELSE TableLoop(TableLine(st, lines[k]), lines, k + 1)

\* return '\n'.join(result_lines), and the logger as the call leaves it
TableFinish(st) == [text |-> JoinLines(st.result_lines), logger |-> st.logger]

\* conservative_remove_tables(text, logger)
ConservativeRemoveTables(text, lg) ==
  TableFinish(TableLoop(TableStart(lg), SplitLines(text), 1))

\* ------------------------------------------------------------------------
\* convert_markdown_to_text: the JSON-like wrapper
\* ------------------------------------------------------------------------

Quote == "\""

RECURSIVE LStripChar(_, _)
LStripChar(s, c) ==
  IF s # <<>> /\ Head(s) = c THEN LStripChar(Tail(s), c) ELSE s

RECURSIVE RStripChar(_, _)
RStripChar(s, c) ==
  IF s # <<>> /\ s[Len(s)] = c THEN RStripChar(SubSeq(s, 1, Len(s) - 1), c) ELSE s

\* s.strip(c) for a one-character argument
StripChar(s, c) == RStripChar(LStripChar(s, c), c)

\* s.replace(old, new) for a two-character old
RECURSIVE Replace2(_, _, _)
Replace2(s, old, new) ==
  IF Len(s) < 2 THEN s
  ELSE IF SubSeq(s, 1, 2) = old THEN new \o Replace2(SubSeq(s, 3, Len(s)), old, new)
  ELSE <<Head(s)>> \o Replace2(Tail(s), old, new)

\* s.split(":", 1): the text before the first colon and the text after it, or
\* s alone when it holds no colon.
SplitOnce(s, c) ==
  IF ~Contains(s, c) THEN <<s>>
  ELSE LET k == CHOOSE j \in 1..Len(s) :
                  s[j] = c /\ \A h \in 1..(j - 1) : s[h] # c
       IN <<Slice(s, 1, k), Slice(s, k + 1, Len(s) + 1)>>

\* The wrapper step: [raised, content].  raised says that the try block threw
\* (split(":", 1)[1] on a list of one element), which the except clause
\* answers with the raw text.
Unwrap(markdown_content) ==
  IF StartsWith(markdown_content, <<Quote>>) /\ Contains(markdown_content, ":") THEN
    LET parts == SplitOnce(markdown_content, ":") IN
    IF Len(parts) < 2 THEN [raised |-> TRUE, content |-> markdown_content]
    ELSE [raised |-> FALSE,
          content |-> Replace2(Replace2(StripChar(Strip(parts[2]), Quote),
                                        <<"\\", "n">>, <<NL>>),
                               <<"\\", Quote>>, <<Quote>>)]
  ELSE [raised |-> FALSE, content |-> markdown_content]

\* ------------------------------------------------------------------------
\* convert_markdown_to_text: the steps
\* ------------------------------------------------------------------------

\* re.sub(re, replacement, s) for a replacement without group references
ReSubConst(re, replacement, s) ==
  With(Matches(re, s), LAMBDA ms :
    SubFrom(ms, [k \in 1..Len(ms) |-> replacement], 1, s, 1))

\* f"{open}{match}{close}" for every match
Framed(open, matches, close) ==
  [k \in 1..Len(matches) |-> open \o matches[k] \o close]

\* Step 2.  r'`([^`\n]+)`'
InlineCodeRe ==
  <<Ch(Backtick), Open(1), Plus(NotIn({Backtick, NL})), Close(1), Ch(Backtick)>>

Step2InlineCode(text, lg) ==
  [text |-> ReSub(InlineCodeRe, 1, text),
   logger |-> LogAll(lg, "inline_code",
                     Framed(<<Backtick>>, FindAll(InlineCodeRe, text, 1), <<Backtick>>))]

\* Step 3a.  r'^(#{1,6}\s+.*)$' is what is logged, r'^#{1,6}\s+' what is removed.
HashHeaderLogRe ==
  <<Bol, Open(1), Rep(Ch("#"), 1, 6), Plus(Space), Star(Dot), Close(1), Eol>>
HashHeaderRe == <<Bol, Rep(Ch("#"), 1, 6), Plus(Space)>>

Step3aHashHeaders(text, lg) ==
  [text |-> ReSub(HashHeaderRe, 0, text),
   logger |-> LogAll(lg, "hash_headers", FindAll(HashHeaderLogRe, text, 1))]

\* Step 3b.  r'^=+\s*$' and r'^-+\s*$'
UnderlineEqRe == <<Bol, Plus(Ch("=")), Star(Space), Eol>>
UnderlineDashRe == <<Bol, Plus(Ch("-")), Star(Space), Eol>>

RECURSIVE UnderlineLoop(_, _, _, _, _)
UnderlineLoop(lines, k, skip_next, processed_lines, lg) ==
  IF k > Len(lines) THEN [text |-> JoinLines(processed_lines), logger |-> lg]
  ELSE IF skip_next THEN
    UnderlineLoop(lines, k + 1, FALSE, processed_lines,
                  Log(lg, "underline_headers", lines[k]))
  ELSE IF k < Len(lines) THEN
    UnderlineLoop(lines, k + 1,
                  \/ ReMatch(UnderlineEqRe, lines[k + 1]).ok
                  \/ ReMatch(UnderlineDashRe, lines[k + 1]).ok,
                  Append(processed_lines, lines[k]), lg)
  ELSE
    UnderlineLoop(lines, k + 1, FALSE, Append(processed_lines, lines[k]), lg)

Step3bUnderlineHeaders(text, lg) ==
  UnderlineLoop(SplitLines(text), 1, FALSE, <<>>, lg)

\* Step 5.  r'^(\[([^\]]+)\]:\s*[^\n]*)$', then r'\[([^\]]+)\]\[[^\]]*\]'
RefDefinitionRe ==
  <<Bol, Open(1), Ch("["), Open(2), Plus(NotIn({"]"})), Close(2), Ch("]"), Ch(":"),
    Star(Space), Star(NotIn({NL})), Close(1), Eol>>
RefLinkRe ==
  <<Ch("["), Open(1), Plus(NotIn({"]"})), Close(1), Ch("]"),
    Ch("["), Star(NotIn({"]"})), Ch("]")>>

RefDefinitions(text, lg) ==
  [text |-> ReSub(RefDefinitionRe, 0, text),
   logger |-> LogAll(lg, "reference_link_definitions",
                     FindAll(RefDefinitionRe, text, 1))]

RefLinks(text, lg) ==
  [text |-> ReSub(RefLinkRe, 1, text),
   logger |-> LogAll(lg, "reference_links",
                     Framed(<<"[">>, FindAll(RefLinkRe, text, 1), Str("][]")))]

\* Step 6.  r'!\[([^\]\n]{0,125})\]\([^)\n]{1,125}\)' and
\* r'\[([^\]\n]{1,125})\]\([^)\n]{1,125}\)'
LinkTarget ==
  <<Ch("]"), Ch("("), Rep(NotIn({")", NL}), 1, SpanCap), Ch(")")>>
ImageRe ==
  <<Ch("!"), Ch("["), Open(1), Rep(NotIn({"]", NL}), 0, SpanCap), Close(1)>>
  \o LinkTarget
LinkRe ==
  <<Ch("["), Open(1), Rep(NotIn({"]", NL}), 1, SpanCap), Close(1)>> \o LinkTarget

\* for match in matches: full_match = re.search(re, line).group();
\* logger.log(step_name, full_match).  [raised, logger]: .group() on the None
\* of a failed search raises AttributeError.
RECURSIVE LogSearched(_, _, _, _, _)
LogSearched(lg, step_name, re, line, n) ==
  IF n = 0 THEN [raised |-> FALSE, logger |-> lg]
  ELSE With(ReSearch(re, line), LAMBDA m :
         IF ~m.ok THEN [raised |-> TRUE, logger |-> lg]
         ELSE LogSearched(Log(lg, step_name, Group0(line, m)), step_name, re, line,
                          n - 1))

\* The two rounds of the loop body, images first.
LinkKinds ==
  << [re |-> ImageRe, step_name |-> "images"],
     [re |-> LinkRe, step_name |-> "links"] >>

\* The search had it read the line after the substitutions.
SubstitutedLine(line) == ReSub(LinkRe, 1, ReSub(ImageRe, 1, line))

\* The line a round's re.search reads: the line its findall read.
SearchLine(line) == line

\* One round: [raised, line, logger]
LinkKind(kind, line, lg) ==
  With(LogSearched(lg, kind.step_name, kind.re, SearchLine(line),
                   Len(FindAll(kind.re, line, 1))),
       LAMBDA logged :
         [raised |-> logged.raised, line |-> ReSub(kind.re, 1, line),
          logger |-> logged.logger])

\* Rounds k.. of the loop body: [raised, line, logger]
RECURSIVE LinkRounds(_, _, _)
LinkRounds(k, line, lg) ==
  IF k > Len(LinkKinds) THEN [raised |-> FALSE, line |-> line, logger |-> lg]
  ELSE With(LinkKind(LinkKinds[k], line, lg), LAMBDA r :
         IF r.raised THEN [raised |-> TRUE, line |-> line, logger |-> r.logger]
         ELSE LinkRounds(k + 1, r.line, r.logger))

RECURSIVE LinksLoop(_, _, _, _)
LinksLoop(lines, k, out, lg) ==
  IF k > Len(lines) THEN [raised |-> FALSE, text |-> JoinLines(out), logger |-> lg]
  ELSE With(LinkRounds(1, lines[k], lg), LAMBDA r :
         IF r.raised
         THEN [raised |-> TRUE, text |-> JoinLines(out), logger |-> r.logger]
         ELSE LinksLoop(lines, k + 1, Append(out, r.line), r.logger))

Step6LinksImages(text, lg) == LinksLoop(SplitLines(text), 1, <<>>, lg)

\* Step 7.  r'^(\s*[-*+]\s+\[([ xX])\]\s*(.+))$' is what is logged; the pattern
\* substituted has the same text in groups (1: the box, 2: the task).
Bullets == {"-", "*", "+"}
TaskLogRe ==
  <<Bol, Open(1), Star(Space), In(Bullets), Plus(Space), Ch("["),
    Open(2), In({" ", "x", "X"}), Close(2), Ch("]"), Star(Space),
    Open(3), Plus(Dot), Close(3), Close(1), Eol>>
TaskRe ==
  <<Bol, Star(Space), In(Bullets), Plus(Space), Ch("["),
    Open(1), In({" ", "x", "X"}), Close(1), Ch("]"), Star(Space),
    Open(2), Plus(Dot), Close(2), Eol>>

Step7TaskLists(text, lg) ==
  [text |-> ReSub(TaskRe, 2, text),
   logger |-> LogAll(lg, "task_lists", FindAll(TaskLogRe, text, 1))]

\* Step 8.  r'^(\s*[-*+]\s+)(.+)' and r'^(\s*\d+\.\s+)(.+)' are what is logged
\* (group 1); the patterns substituted keep the content as group 1.
UnorderedLogRe ==
  <<Bol, Open(1), Star(Space), In(Bullets), Plus(Space), Close(1),
    Open(2), Plus(Dot), Close(2)>>
UnorderedRe ==
  <<Bol, Star(Space), In(Bullets), Plus(Space), Open(1), Plus(Dot), Close(1)>>
OrderedLogRe ==
  <<Bol, Open(1), Star(Space), Plus(In(Digits)), Ch("."), Plus(Space), Close(1),
    Open(2), Plus(Dot), Close(2)>>
OrderedRe ==
  <<Bol, Star(Space), Plus(In(Digits)), Ch("."), Plus(Space),
    Open(1), Plus(Dot), Close(1)>>

UnorderedLists(text, lg) ==
  [text |-> ReSub(UnorderedRe, 1, text),
   logger |-> LogAll(lg, "unordered_lists", FindAll(UnorderedLogRe, text, 1))]

OrderedLists(text, lg) ==
  [text |-> ReSub(OrderedRe, 1, text),
   logger |-> LogAll(lg, "ordered_lists", FindAll(OrderedLogRe, text, 1))]

\* Step 9.  r'\\([\\`*_{}\[\]()#+\-.!])'
EscapableChars ==
  {"\\", Backtick, "*", "_", "{", "}", "[", "]", "(", ")", "#", "+", "-", ".", "!"}
EscapeRe == <<Ch("\\"), Open(1), In(EscapableChars), Close(1)>>

\* r"`*_{}[]()#+-.!\\", the characters replace_escape gives back bare
EscapeAllowList ==
  {Backtick, "*", "_", "{", "}", "[", "]", "(", ")", "#", "+", "-", ".", "!", "\\"}

\* replace_escape's return value for the escaped character char
ReplaceEscape(char) ==
  IF char \in EscapeAllowList THEN <<char>> ELSE <<"\\", char>>

\* One re.sub(..., replace_escape, text)
EscapePass(text, lg) ==
  With(Matches(EscapeRe, text), LAMBDA ms :
    [text |-> SubFrom(ms, [k \in 1..Len(ms) |->
                             ReplaceEscape(Group(text, ms[k], 1)[1])],
                      1, text, 1),
     logger |-> LogAll(lg, "escaped_characters",
                       Framed(<<"\\">>, [k \in 1..Len(ms) |-> Group(text, ms[k], 1)],
                              <<>>))])

\* Step 10.  r'>' counts the markers, r'^\s*(?:>\s*)+' is what is replaced.
QuotePrefixRe == <<Bol, Star(Space), GroupPlus(<<Ch(">"), Star(Space)>>)>>

\* ' ' * n
Spaces(n) == [k \in 1..n |-> " "]

\* len(re.findall(r'>', line))
GtCount(line) == Len(FindAll(<<Ch(">")>>, line, 0))

\* The loop body: [line, logger]
BlockquoteLine(line, lg) ==
  With(ReSubConst(QuotePrefixRe, Spaces(GtCount(line) + 1), line),
       LAMBDA processed_line :
         [line |-> processed_line,
          logger |-> IF line # processed_line
                     THEN Log(lg, "blockquotes",
                              \* original_line[:len(original_line)
                              \*                - len(processed_line.lstrip())]
                              Slice(line, 1, Len(line) - Len(LStrip(processed_line)) + 1))
                     ELSE lg])

RECURSIVE BlockquoteLoop(_, _, _, _)
BlockquoteLoop(lines, k, out, lg) ==
  IF k > Len(lines) THEN [text |-> JoinLines(out), logger |-> lg]
  ELSE With(BlockquoteLine(lines[k], lg), LAMBDA r :
         BlockquoteLoop(lines, k + 1, Append(out, r.line), r.logger))

Step10Blockquotes(text, lg) == BlockquoteLoop(SplitLines(text), 1, <<>>, lg)

\* Step 11.  r'^\s*[-*_](\s*[-*_])*\s*$'
RuleChars == {"-", "*", "_"}
HorizontalRuleRe ==
  <<Bol, Star(Space), In(RuleChars),
    GroupStar(<<Star(Space), In(RuleChars)>>), Star(Space), Eol>>

IsHorizontalRule(line) == ReMatch(HorizontalRuleRe, line).ok

RECURSIVE RuleLoop(_, _, _, _)
RuleLoop(lines, k, out, lg) ==
  IF k > Len(lines) THEN [text |-> JoinLines(out), logger |-> lg]
  ELSE IF IsHorizontalRule(lines[k])
       THEN RuleLoop(lines, k + 1, out, Log(lg, "horizontal_rules", lines[k]))
       ELSE RuleLoop(lines, k + 1, Append(out, lines[k]), lg)

Step11HorizontalRules(text, lg) == RuleLoop(SplitLines(text), 1, <<>>, lg)

\* Step 13.  r'<[^>\n]{0,125}>'
HtmlTagRe == <<Ch("<"), Rep(NotIn({">", NL}), 0, SpanCap), Ch(">")>>

RECURSIVE HtmlLoop(_, _, _, _)
HtmlLoop(lines, k, out, lg) ==
  IF k > Len(lines) THEN [text |-> JoinLines(out), logger |-> lg]
  ELSE HtmlLoop(lines, k + 1, Append(out, ReSub(HtmlTagRe, 0, lines[k])),
                LogAll(lg, "html_tags", FindAll(HtmlTagRe, lines[k], 0)))

Step13HtmlTags(text, lg) == HtmlLoop(SplitLines(text), 1, <<>>, lg)

\* Step 14.  r'~~([^~\n]{1,125}?)~~'
StrikethroughRe == Lit("~~") \o Interior("~") \o Lit("~~")

Step14Strikethrough(text, lg) ==
  [text |-> ReSub(StrikethroughRe, 1, text),
   logger |-> LogAll(lg, "strikethrough",
                     Framed(Str("~~"), FindAll(StrikethroughRe, text, 1), Str("~~")))]

\* Step 15.  r'\[\^([^\]\n]{1,125})\](?!:)', then r'^(\[\^([^\]]+)\]:\s*(.+))$'
FootnoteRefRe ==
  <<Ch("["), Ch("^"), Open(1), Rep(NotIn({"]", NL}), 1, SpanCap), Close(1), Ch("]"),
    NotBefore(":")>>
FootnoteDefRe ==
  <<Bol, Open(1), Ch("["), Ch("^"), Open(2), Plus(NotIn({"]"})), Close(2), Ch("]"),
    Ch(":"), Star(Space), Open(3), Plus(Dot), Close(3), Close(1), Eol>>

FootnoteRefs(text, lg) ==
  [text |-> ReSub(FootnoteRefRe, 0, text),
   logger |-> LogAll(lg, "footnote_references",
                     Framed(Str("[^"), FindAll(FootnoteRefRe, text, 1), <<"]">>))]

FootnoteDefs(text, lg) ==
  [text |-> ReSub(FootnoteDefRe, 0, text),
   logger |-> LogAll(lg, "footnote_definitions", FindAll(FootnoteDefRe, text, 1))]

\* Step 16.  r'\n{3,}'
NewlineRunRe == <<Rep(Ch(NL), 3, Unbounded)>>

\* str(n) for n >= 0
RECURSIVE Decimal(_)
Decimal(n) ==
  LET d == <<"0", "1", "2", "3", "4", "5", "6", "7", "8", "9">>[(n % 10) + 1] IN
  IF n < 10 THEN <<d>> ELSE Decimal(n \div 10) \o <<d>>

\* text = '\n'.join(line.strip() for line in text.split('\n'))
StripLines(text, lg) ==
  LET lines == SplitLines(text) IN
  [text |-> JoinLines([k \in 1..Len(lines) |-> Strip(lines[k])]), logger |-> lg]

\* excessive_newlines is logged by its count; re.sub(r'\n{3,}', '\n\n', text)
CollapseNewlines(text, lg) ==
  With(FindAll(NewlineRunRe, text, 0), LAMBDA excessive_newlines :
    [text |-> ReSubConst(NewlineRunRe, <<NL, NL>>, text),
     logger |-> IF excessive_newlines # <<>>
                THEN Log(lg, "excessive_whitespace",
                         Str("Found ") \o Decimal(Len(excessive_newlines))
                         \o Str(" instances of 3+ consecutive newlines"))
                ELSE lg])

\* ------------------------------------------------------------------------
\* Steps made of two passes over the text
\* ------------------------------------------------------------------------

Step5ReferenceLinks(text, lg) ==
  With(RefDefinitions(text, lg), LAMBDA r : RefLinks(r.text, r.logger))

Step8Lists(text, lg) ==
  With(UnorderedLists(text, lg), LAMBDA r : OrderedLists(r.text, r.logger))

\* for _ in range(2)
Step9Escapes(text, lg) ==
  With(EscapePass(text, lg), LAMBDA r : EscapePass(r.text, r.logger))

Step15Footnotes(text, lg) ==
  With(FootnoteRefs(text, lg), LAMBDA r : FootnoteDefs(r.text, r.logger))

Step16Whitespace(text, lg) ==
  With(CollapseNewlines(text, lg), LAMBDA r : StripLines(r.text, r.logger))

\* ------------------------------------------------------------------------
\* convert_markdown_to_text as a function
\* ------------------------------------------------------------------------

\* The steps between the wrapper and the whitespace step, in the order of the
\* source: Steps(k, text, lg) is step k's [text, logger] (and, for the two
\* steps that have them, warnings and raised).
StepNames ==
  <<"Step 1 - Code blocks", "Step 2 - Inline code", "Step 3a - Hash headers",
    "Step 3b - Underline headers", "Step 4 - All emphasis",
    "Step 5 - Reference links", "Step 6 - Links and images", "Step 7 - Task lists",
    "Step 8 - Regular lists", "Step 9 - Escaped characters", "Step 10 - Blockquotes",
    "Step 11 - Horizontal rules", "Step 12 - Tables (conservative)",
    "Step 13 - HTML tags", "Step 14 - Strikethrough", "Step 15 - Footnotes",
    "Step 16 - Clean whitespace">>

NumSteps == Len(StepNames)

Steps(k, text, lg) ==
  CASE k = 1 -> SafeRemoveCodeBlocks(text, lg)
    [] k = 2 -> Step2InlineCode(text, lg)
    [] k = 3 -> Step3aHashHeaders(text, lg)
    [] k = 4 -> Step3bUnderlineHeaders(text, lg)
    [] k = 5 -> SafeRemoveEmphasis(text, lg)
    [] k = 6 -> Step5ReferenceLinks(text, lg)
    [] k = 7 -> Step6LinksImages(text, lg)
    [] k = 8 -> Step7TaskLists(text, lg)
    [] k = 9 -> Step8Lists(text, lg)
    [] k = 10 -> Step9Escapes(text, lg)
    [] k = 11 -> Step10Blockquotes(text, lg)
    [] k = 12 -> Step11HorizontalRules(text, lg)
    [] k = 13 -> ConservativeRemoveTables(text, lg)
    [] k = 14 -> Step13HtmlTags(text, lg)
    [] k = 15 -> Step14Strikethrough(text, lg)
    [] k = 16 -> Step15Footnotes(text, lg)
    [] k = 17 -> Step16Whitespace(text, lg)

\* Whether the step that gave r raised an exception.
Raised(r) == "raised" \in DOMAIN r /\ r.raised

\* Steps k..NumSteps and the return: [raised, text, logger]
RECURSIVE RunFrom(_, _, _)
RunFrom(k, text, lg) ==
  IF k > NumSteps THEN [raised |-> FALSE, text |-> Strip(text), logger |-> lg]
  ELSE With(Steps(k, text, lg), LAMBDA r :
         IF Raised(r) THEN [raised |-> TRUE, text |-> r.text, logger |-> r.logger]
         ELSE RunFrom(k + 1, r.text, r.logger))

\* convert_markdown_to_text(markdown_content, logger=lg): [raised, text, logger]
Convert(markdown_content, lg) == RunFrom(1, Unwrap(markdown_content).content, lg)

\* The str the call returns, taken for inputs on which it returns.
ConvertText(markdown_content) == Convert(markdown_content, NewLogger(FALSE)).text

\* ------------------------------------------------------------------------
\* State
\* ------------------------------------------------------------------------

VARIABLES
  pc,               \* where the running call stands
  markdown_content, \* convert_markdown_to_text's argument
  debug,            \* its debug flag
  logger,           \* the StrippedContentLogger in use (None: not given)
  text,             \* the document as the steps rewrite it
  before,           \* the document as the last step found it
  stderr,           \* the warnings printed: their line numbers
  stdout,           \* the debug lines printed
  lines,            \* a line scanner's lines
  i,                \* its 0-based line index
  loop,             \* safe_remove_code_blocks' loop variables
  processed_line,   \* safe_remove_emphasis' line in the making
  calls             \* the log calls made on the ledger so far, as (name, content)

vars ==
  <<pc, markdown_content, debug, logger, text, before, stderr, stdout, lines, i,
    loop, processed_line, calls>>

\* Python's None, where a logger may stand.
None == [none |-> TRUE]

\* ------------------------------------------------------------------------
\* Bounds and inputs
\* ------------------------------------------------------------------------

\* All strings over the characters cs of length at most n.
RECURSIVE Strings(_, _)
Strings(cs, n) ==
  IF n = 0 THEN {<<>>}
  ELSE LET shorter == Strings(cs, n - 1) IN
       shorter \cup {Append(s, c) : s \in shorter, c \in cs}

\* All sequences of at most n elements of the set S.
Seqs(S, n) == Strings(S, n)

\* The longest document generated from characters, and the one with the most
\* pieces generated from pieces.
MaxLen == 3
MaxPieces == 2

\* The characters generated documents are made of.
Alphabet == {"a", " ", NL, "*", "\\", "#"}

\* The pieces generated documents are made of: link and image parts, a fence,
\* and the quote and colon of the JSON-like wrapper.
Pieces ==
  {Str("[a]"), Str("(b)"), Str("[c]"), <<"!">>, Fence, <<NL>>, <<"a">>,
   <<Quote>>, <<":">>}

RECURSIVE Flatten(_)
Flatten(ss) == IF ss = <<>> THEN <<>> ELSE Head(ss) \o Flatten(Tail(ss))

\* The inline spans of bounded length: the ledger category of each, what
\* opens and closes an occurrence, the character its interior stops at, and
\* the place of the call after the pass that strips it.
SpanKinds ==
  { [step_name |-> "inline_code", open |-> <<Backtick>>, close |-> <<Backtick>>,
     stop |-> Backtick, after |-> "Step 3a - Hash headers"],
    [step_name |-> "bold_italic", open |-> Str("***"), close |-> Str("***"),
     stop |-> "*", after |-> "Step 5 - Reference links"],
    [step_name |-> "bold_asterisks", open |-> Str("**"), close |-> Str("**"),
     stop |-> "*", after |-> "Step 5 - Reference links"],
    [step_name |-> "italic_asterisks", open |-> Str("*"), close |-> Str("*"),
     stop |-> "*", after |-> "Step 5 - Reference links"],
    [step_name |-> "images", open |-> Str("!["), close |-> Str("](b)"),
     stop |-> "]", after |-> "Step 7 - Task lists"],
    [step_name |-> "links", open |-> Str("["), close |-> Str("](b)"),
     stop |-> "]", after |-> "Step 7 - Task lists"],
    [step_name |-> "strikethrough", open |-> Str("~~"), close |-> Str("~~"),
     stop |-> "~", after |-> "Step 15 - Footnotes"],
    [step_name |-> "footnote_references", open |-> Str("[^"), close |-> Str("]"),
     stop |-> "]", after |-> "Step 16 - Clean whitespace"] }

\* An occurrence of the kind whose interior is one character longer than the
\* span cap.
LongSpan(kind) == kind.open \o [k \in 1..(SpanCap + 1) |-> "a"] \o kind.close

\* Documents of the program's own examples and of the constructs its steps
\* look for, beside the generated ones.
Samples ==
  { Str("**bold** and *italic* and ***both***"),
    Str("[Example](http://example.com)"),
    Str("![alt text](img.png)"),
    Str("[a](b) and [c](d)"),
    Str("![a](b)![c](d) [e](f)"),
    Str("| A | B |\n|---|---|"),
    Str("\\*literal\\*"),
    Str("\\q"),
    Str("\\# a"),
    Str("one\n\n\n\n\ntwo"),
    Str("one\n \n\ntwo"),
    Str("one\n>\n>\n>\ntwo"),
    Fence \o Str("\ncode\n") \o Fence,
    Str("text\n") \o Fence \o Str("\ncode"),
    Str("\"key\": \"# Title\\n\\nbody \\\"q\\\"\""),
    Str("\"a:"),
    Str("\"k\": \"intro\\n") \o Fence \o Str("\\ncode\""),
    Str("Title\n=====\n- [x] done\n1. first\n> quoted"),
    Str("***\n<b>bold</b> ~~gone~~ note[^1]\n[^1]: the note"),
    Str("[text][ref]\n[ref]: http://x"),
    Str("a\n\n- b\n\n1. c"),
    Str("-\nitem\n  + kept"),
    Str("> a > b"),
    Str("  >> deep\nplain > text"),
    Str("x\n-*-\ny"),
    Str("- - -\n_ _\n--"),
    Str("x ") \o <<Backtick>> \o Str("code") \o <<Backtick>> }
  \cup {LongSpan(kind) : kind \in SpanKinds}

Documents ==
  Strings(Alphabet, MaxLen)
  \cup {Flatten(ps) : ps \in Seqs(Pieces, MaxPieces)}
  \cup Samples

\* ------------------------------------------------------------------------
\* convert_markdown_to_text as a process
\* ------------------------------------------------------------------------

\* pc while step k is the next to run
StepPc == [k \in 1..NumSteps |-> StepNames[k]]

\* debug_step(step_name, before_text, after_text)
DebugStep(step_name, before_text, after_text) ==
  IF debug
  THEN Append(stdout, <<step_name, Len(before_text), Len(after_text),
                        Len(before_text) - Len(after_text)>>)
  ELSE stdout

Init ==
  /\ pc = "call"
  /\ markdown_content \in Documents
  /\ debug \in BOOLEAN
  /\ logger \in {None, NewLogger(FALSE), NewLogger(TRUE)}
  /\ text = <<>>
  /\ before = <<>>
  /\ stderr = <<>>
  /\ stdout = <<>>
  /\ lines = <<>>
  /\ i = 0
  /\ loop = CodeBlockStart(None)
  /\ processed_line = <<>>
  /\ calls = <<>>

Scanning == <<lines, i, loop, processed_line, calls>>

\* The default logger, the wrapper step and the first debug line.
Enter ==
  /\ pc = "call"
  /\ logger' = IF logger = None THEN NewLogger(FALSE) ELSE logger
  /\ text' = Unwrap(markdown_content).content
  /\ stdout' = IF debug
               THEN <<<<"Starting conversion", Len(Unwrap(markdown_content).content)>>>>
               ELSE stdout
  /\ pc' = StepPc[1]
  /\ UNCHANGED <<markdown_content, debug, before, stderr, Scanning>>

\* Step k has given r: before = text; text = ...; debug_step(...).  An
\* exception a step raises ends the call.
Stepped(k, r) ==
  /\ pc = StepPc[k]
  /\ before' = text
  /\ text' = r.text
  /\ logger' = r.logger
  /\ stdout' = IF Raised(r) THEN stdout ELSE DebugStep(StepNames[k], text, r.text)
  /\ pc' = IF Raised(r) THEN "error"
           ELSE IF k = NumSteps THEN "return" ELSE StepPc[k + 1]
  /\ UNCHANGED <<markdown_content, debug, Scanning>>

Step1CodeBlocks ==
  \E r \in {SafeRemoveCodeBlocks(text, logger)} :
    /\ Stepped(1, r)
    /\ stderr' = stderr \o r.warnings

\* Step k of the steps after the first, none of which writes to stderr
Step(k) == Stepped(k, Steps(k, text, logger)) /\ UNCHANGED stderr

\* final_length, the last debug line, and return text.strip()
Return ==
  /\ pc = "return"
  /\ before' = text
  /\ text' = Strip(text)
  /\ stdout' = IF debug
               THEN Append(stdout,
                           <<"Final length", Len(Strip(text)),
                             Len(Unwrap(markdown_content).content) - Len(Strip(text))>>)
               ELSE stdout
  /\ pc' = "done"
  /\ UNCHANGED <<markdown_content, debug, logger, stderr, Scanning>>

Next ==
  \/ Enter
  \/ Step1CodeBlocks
  \/ \E k \in 2..NumSteps : Step(k)
  \/ Return

Spec == Init /\ [][Next]_vars

\* ------------------------------------------------------------------------
\* safe_remove_code_blocks as a process: one step for each line
\* ------------------------------------------------------------------------

\* The most lines of a document handed to a line scanner.
MaxLines == 4

\* The lines code-block documents are made of: fences (bare, indented, with
\* a language tag), text and the empty line.
CodeLines == {Fence, <<" ">> \o Fence \o Str("py"), Str("a"), Str("b"), <<>>}

\* What a process that never touches them leaves of the conversion's variables.
Idle ==
  /\ markdown_content = <<>>
  /\ debug = FALSE
  /\ before = <<>>
  /\ stdout = <<>>
  /\ processed_line = <<>>
  /\ calls = <<>>

InitCodeBlocks ==
  /\ pc = "safe_remove_code_blocks"
  /\ text \in {JoinLines(ls) : ls \in Seqs(CodeLines, MaxLines) \ {<<>>}}
  /\ logger \in {NewLogger(FALSE), NewLogger(TRUE)}
  /\ stderr = <<>>
  /\ lines = <<>>
  /\ i = 0
  /\ loop = CodeBlockStart(None)
  /\ Idle

\* lines = text.split('\n') and the loop variables' first values
CodeBlocksCall ==
  /\ pc = "safe_remove_code_blocks"
  /\ lines' = SplitLines(text)
  /\ i' = 0
  /\ loop' = CodeBlockStart(logger)
  /\ pc' = "for i, line in enumerate(lines)"
  /\ UNCHANGED <<markdown_content, debug, logger, text, before, stderr, stdout,
                 processed_line, calls>>

\* One iteration of for i, line in enumerate(lines)
CodeBlocksLine ==
  /\ pc = "for i, line in enumerate(lines)"
  /\ i < Len(lines)
  /\ loop' = CodeBlockLine(loop, i, lines[i + 1])
  /\ i' = i + 1
  /\ UNCHANGED <<pc, markdown_content, debug, logger, text, before, stderr, stdout,
                 lines, processed_line, calls>>

\* The loop is over: the warning, the log of an unclosed block, the return.
CodeBlocksReturn ==
  /\ pc = "for i, line in enumerate(lines)"
  /\ i = Len(lines)
  /\ \E r \in {CodeBlockFinish(loop)} :
       /\ before' = text
       /\ text' = r.text
       /\ logger' = r.logger
       /\ stderr' = stderr \o r.warnings
  /\ pc' = "returned"
  /\ UNCHANGED <<markdown_content, debug, stdout, lines, i, loop, processed_line,
                 calls>>

NextCodeBlocks == CodeBlocksCall \/ CodeBlocksLine \/ CodeBlocksReturn

SpecCodeBlocks == InitCodeBlocks /\ [][NextCodeBlocks]_vars

\* What the specification calls a fence, a block and its lines.  A fence is a
\* line whose trimmed form starts with three backticks; fences open and close
\* blocks in turn.
IsFenceLine(line) == StartsWith(Strip(line), Fence)
FencesUpTo(ls, k) == Cardinality({j \in 1..k : IsFenceLine(ls[j])})
OpensBlock(ls, k) == IsFenceLine(ls[k]) /\ FencesUpTo(ls, k) % 2 = 1
ClosesBlock(ls, k) == IsFenceLine(ls[k]) /\ FencesUpTo(ls, k) % 2 = 0
\* Line k is a line of a block, closed or not, its fences included.
InBlock(ls, k) == FencesUpTo(ls, k) % 2 = 1 \/ ClosesBlock(ls, k)
\* The last block has no closing fence.
Unterminated(ls) == FencesUpTo(ls, Len(ls)) % 2 = 1
LastFence(ls) ==
  CHOOSE k \in 1..Len(ls) :
    IsFenceLine(ls[k]) /\ \A j \in (k + 1)..Len(ls) : ~IsFenceLine(ls[j])
NextFence(ls, k) ==
  CHOOSE j \in (k + 1)..Len(ls) :
    IsFenceLine(ls[j]) /\ \A h \in (k + 1)..(j - 1) : ~IsFenceLine(ls[h])
IsClosed(ls, k) ==
  OpensBlock(ls, k) /\ \E j \in (k + 1)..Len(ls) : IsFenceLine(ls[j])

\* The blocks that were opened and closed, each as its lines from the opening
\* to the closing fence, in the order of the document.
ClosedBlocks(ls) ==
  Flatten([k \in 1..Len(ls) |->
             IF IsClosed(ls, k) THEN <<JoinLines(SubSeq(ls, k, NextFence(ls, k)))>>
             ELSE <<>>])

\* The output that keeps the lines outside blocks and writes one placeholder
\* for a block: where its opening fence stood (atOpening), whether it is
\* closed or not, or where its closing fence stood.
ExpectedLines(ls, atOpening) ==
  Flatten([k \in 1..Len(ls) |->
             IF atOpening /\ OpensBlock(ls, k) THEN <<Placeholder>>
             ELSE IF ~atOpening /\ ClosesBlock(ls, k) THEN <<Placeholder>>
             ELSE IF InBlock(ls, k) THEN <<>>
             ELSE <<ls[k]>>])

\* How many lines of the text are the placeholder.
Placeholders(t) ==
  Cardinality({k \in 1..Len(SplitLines(t)) : SplitLines(t)[k] = Placeholder})

\* C2 as amended: when the code-block pass has returned, its output keeps the
\* lines outside blocks in order and holds one placeholder for every block
\* that was opened, closed or not, standing where the opening fence stood; no
\* line of a block is in it; and code_blocks holds, for every closed block in
\* turn, its lines from the opening to the closing fence.
C2_PlaceholderPerOpenedBlock ==
  pc = "returned" =>
    /\ text = JoinLines(ExpectedLines(lines, TRUE))
    /\ Placeholders(text)
         = Cardinality({k \in 1..Len(lines) : OpensBlock(lines, k)})
    /\ logger.enabled => Section(logger, "code_blocks") = ClosedBlocks(lines)

\* C2 as written: the placeholder is written on the closing fence, so the
\* output holds as many placeholders as there are blocks opened and closed.
C2_PlaceholderPerClosedBlock ==
  pc = "returned" =>
    /\ text = JoinLines(ExpectedLines(lines, FALSE))
    /\ Placeholders(text) = Len(ClosedBlocks(lines))
    /\ logger.enabled => Section(logger, "code_blocks") = ClosedBlocks(lines)

\* A document with a closed block followed by an unterminated one has been
\* through the pass.
C2_Witness ==
  /\ pc = "returned"
  /\ logger.enabled
  /\ Len(ClosedBlocks(lines)) = 1
  /\ Unterminated(lines)
  /\ \E k \in 1..Len(lines) : ~InBlock(lines, k)

\* C3: the pass always comes to its return; when the input ends inside a
\* block, one warning names the 1-based line of the opening fence, the lines
\* from that fence to the end are logged as one entry of
\* code_blocks_unclosed and not under code_blocks, and the output is what the
\* lines before the fence give, followed by the block's placeholder; when
\* it does not, there is no warning and no code_blocks_unclosed entry.
C3_UnterminatedFence ==
  /\ pc = "returned" \/ ENABLED NextCodeBlocks
  /\ pc = "returned" /\ Unterminated(lines) =>
       /\ stderr = <<LastFence(lines)>>
       /\ text = JoinLines(ExpectedLines(SubSeq(lines, 1, LastFence(lines) - 1), TRUE)
                           \o <<Placeholder>>)
       /\ logger.enabled =>
            /\ Section(logger, "code_blocks_unclosed")
                 = <<JoinLines(SubSeq(lines, LastFence(lines), Len(lines)))>>
            /\ Section(logger, "code_blocks") = ClosedBlocks(lines)
            /\ \A k \in 1..Len(ClosedBlocks(lines)) :
                 ClosedBlocks(lines)[k]
                   # JoinLines(SubSeq(lines, LastFence(lines), Len(lines)))
  /\ pc = "returned" /\ ~Unterminated(lines) =>
       /\ stderr = <<>>
       /\ "code_blocks_unclosed" \notin SectionNames(logger)

\* The input ended inside a block that lines before it and lines in it.
C3_Witness ==
  /\ pc = "returned"
  /\ logger.enabled
  /\ Unterminated(lines)
  /\ 1 < LastFence(lines)
  /\ LastFence(lines) < Len(lines)
  /\ stderr = <<LastFence(lines)>>

\* ------------------------------------------------------------------------
\* conservative_remove_tables as a process: one step for each line
\* ------------------------------------------------------------------------

\* The longest generated table line.
MaxTableLen == 5

\* The most lines of a generated table document.
MaxTableLines == 3

TableAlphabet == {"|", "-", ":", " ", "a"}

\* Data rows, separator rows of several shapes (aligned, padded, indented
\* with a tab) and lines that are neither.
TableLines ==
  { Str("| A | B |"), Str("|---|---|"), Str("| :-: | --: |"), Str("\t|-|-|\t"),
    Str("|-\t|-|"), Str("|---|"), Str("---|---"), <<>> }

TableDocuments ==
  Strings(TableAlphabet, MaxTableLen)
  \cup {JoinLines(ls) : ls \in Seqs(TableLines, MaxTableLines) \ {<<>>}}

InitTables ==
  /\ pc = "conservative_remove_tables"
  /\ text \in TableDocuments
  /\ logger \in {NewLogger(FALSE), NewLogger(TRUE)}
  /\ stderr = <<>>
  /\ lines = <<>>
  /\ i = 0
  /\ loop = TableStart(None)
  /\ Idle

\* lines = text.split('\n'); result_lines = []
TablesCall ==
  /\ pc = "conservative_remove_tables"
  /\ lines' = SplitLines(text)
  /\ i' = 0
  /\ loop' = TableStart(logger)
  /\ pc' = "for line in lines"
  /\ UNCHANGED <<markdown_content, debug, logger, text, before, stderr, stdout,
                 processed_line, calls>>

\* One iteration of the loop
TablesLine ==
  /\ pc = "for line in lines"
  /\ i < Len(lines)
  /\ loop' = TableLine(loop, lines[i + 1])
  /\ i' = i + 1
  /\ UNCHANGED <<pc, markdown_content, debug, logger, text, before, stderr, stdout,
                 lines, processed_line, calls>>

TablesReturn ==
  /\ pc = "for line in lines"
  /\ i = Len(lines)
  /\ before' = text
  /\ text' = TableFinish(loop).text
  /\ logger' = TableFinish(loop).logger
  /\ pc' = "returned"
  /\ UNCHANGED <<markdown_content, debug, stderr, stdout, lines, i, loop,
                 processed_line, calls>>

NextTables == TablesCall \/ TablesLine \/ TablesReturn

SpecTables == InitTables /\ [][NextTables]_vars

\* What the specification calls a separator row.  A cell has the shape
\* optional colon, one or more dashes, optional colon.
CellShape(cell) ==
  \E a \in {0, 1}, b \in {0, 1} :
    /\ Len(cell) - a - b >= 1
    /\ \A k \in 1..Len(cell) :
         cell[k] = IF k <= a \/ k > Len(cell) - b THEN ":" ELSE "-"

\* The trimmed line starts and ends with a pipe; what is between them holds
\* only whitespace, dashes, colons and pipes, and a dash; the pipes split it
\* into two or more cells that are not blank, each of the cell shape.
SeparatorRow(line) ==
  LET trimmed == Strip(line)
      interior == SubSeq(trimmed, 2, Len(trimmed) - 1)
      cells == SelectSeq(Split(interior, "|"), LAMBDA c : Strip(c) # <<>>)
  IN /\ trimmed # <<>>
     /\ trimmed[1] = "|"
     /\ trimmed[Len(trimmed)] = "|"
     /\ \A k \in 1..Len(interior) : interior[k] \in Whitespace \cup {"-", ":", "|"}
     /\ \E k \in 1..Len(interior) : interior[k] = "-"
     /\ Len(cells) >= 2
     /\ \A k \in 1..Len(cells) : CellShape(Strip(cells[k]))

\* C8: when the table pass has returned, the lines it removed are exactly
\* the separator rows: its output is the other lines, unchanged and in
\* order, and table_separators holds the separator rows in order.
C8_OnlySeparatorRowsRemoved ==
  pc = "returned" =>
    /\ text = JoinLines(SelectSeq(lines, LAMBDA l : ~SeparatorRow(l)))
    /\ logger.enabled =>
         Section(logger, "table_separators")
           = SelectSeq(lines, LAMBDA l : SeparatorRow(l))

\* A table went through the pass: its separator row removed and logged,
\* its data row kept with its pipes.
C8_Witness ==
  /\ pc = "returned"
  /\ logger.enabled
  /\ lines = <<Str("| A | B |"), Str("| :-: | --: |")>>
  /\ text = Str("| A | B |")
  /\ Section(logger, "table_separators") = <<Str("| :-: | --: |")>>

\* ------------------------------------------------------------------------
\* safe_remove_emphasis as a process: one step for each round on each line
\* ------------------------------------------------------------------------

\* The longest generated line of emphasis.
MaxEmphasisLen == 7

EmphasisAlphabet == {"*", "a", " "}

\* The program's own example and lines of both families, beside the
\* generated ones.
EmphasisSamples ==
  { Str("**bold** and *italic* and ***both***"),
    Str("__bold__ and _italic_ and *a* **b** _c_"),
    Str("*a*\n**b**\n***c*** *d*"),
    Str("**a*\n*a**b*") }

EmphasisDocuments == Strings(EmphasisAlphabet, MaxEmphasisLen) \cup EmphasisSamples

\* The loop's variables before its first iteration; round is the round of
\* the loop body that runs next (0: between two lines).
EmphasisStart == [result_lines |-> <<>>, round |-> 0]

InitEmphasis ==
  /\ pc = "safe_remove_emphasis"
  /\ text \in EmphasisDocuments
  /\ logger \in {NewLogger(FALSE), NewLogger(TRUE)}
  /\ stderr = <<>>
  /\ lines = <<>>
  /\ i = 0
  /\ loop = EmphasisStart
  /\ Idle

\* lines = text.split('\n'); result_lines = []
EmphasisCall ==
  /\ pc = "safe_remove_emphasis"
  /\ lines' = SplitLines(text)
  /\ i' = 0
  /\ loop' = EmphasisStart
  /\ pc' = "for line in lines"
  /\ UNCHANGED <<markdown_content, debug, logger, text, before, stderr, stdout,
                 processed_line, calls>>

\* processed_line = line
EmphasisTakeLine ==
  /\ pc = "for line in lines"
  /\ loop.round = 0
  /\ i < Len(lines)
  /\ processed_line' = lines[i + 1]
  /\ loop' = [loop EXCEPT !.round = 1]
  /\ UNCHANGED <<pc, markdown_content, debug, logger, text, before, stderr, stdout,
                 lines, i, calls>>

\* One findall / log / sub round of the loop body
EmphasisRound ==
  /\ pc = "for line in lines"
  /\ loop.round \in 1..Len(EmphasisKinds)
  /\ \E r \in {EmphasisKind(EmphasisKinds[loop.round], processed_line, logger)} :
       /\ processed_line' = r.line
       /\ logger' = r.logger
  /\ loop' = [loop EXCEPT !.round = @ + 1]
  /\ UNCHANGED <<pc, markdown_content, debug, text, before, stderr, stdout, lines, i,
                 calls>>

\* result_lines.append(processed_line)
EmphasisAppend ==
  /\ pc = "for line in lines"
  /\ loop.round = Len(EmphasisKinds) + 1
  /\ loop' = [loop EXCEPT !.round = 0, !.result_lines = Append(@, processed_line)]
  /\ i' = i + 1
  /\ UNCHANGED <<pc, markdown_content, debug, logger, text, before, stderr, stdout,
                 lines, processed_line, calls>>

EmphasisReturn ==
  /\ pc = "for line in lines"
  /\ loop.round = 0
  /\ i = Len(lines)
  /\ before' = text
  /\ text' = JoinLines(loop.result_lines)
  /\ pc' = "returned"
  /\ UNCHANGED <<markdown_content, debug, logger, stderr, stdout, lines, i, loop,
                 processed_line, calls>>

NextEmphasis ==
  \/ EmphasisCall
  \/ EmphasisTakeLine
  \/ EmphasisRound
  \/ EmphasisAppend
  \/ EmphasisReturn

SpecEmphasis == InitEmphasis /\ [][NextEmphasis]_vars

\* What the specification calls a span.  The asterisks of a line come in
\* runs; a line is made of spans and plain text when its runs pair up in
\* turn, each pair of one length (1: italic, 2: bold, 3: bold-italic), and
\* it holds no underscore, the delimiter of the other family.
RunStarts(line) ==
  SelectSeq([k \in 1..Len(line) |-> k],
            LAMBDA k : line[k] = "*" /\ (k = 1 \/ line[k - 1] # "*"))
RunLength(line, k) ==
  CHOOSE n \in 1..Len(line) :
    /\ \A h \in k..(k + n - 1) : h <= Len(line) /\ line[h] = "*"
    /\ (k + n > Len(line) \/ line[k + n] # "*")
MadeOfSpans(line) ==
  LET starts == RunStarts(line) IN
  /\ ~Contains(line, "_")
  /\ Len(starts) % 2 = 0
  /\ \A j \in 1..(Len(starts) \div 2) :
       /\ RunLength(line, starts[2 * j - 1]) = RunLength(line, starts[2 * j])
       /\ RunLength(line, starts[2 * j]) <= 3
\* The spans of a line whose delimiter is d asterisks, delimiters included,
\* from left to right.
SpansOf(line, d) ==
  LET starts == RunStarts(line) IN
  Flatten([j \in 1..(Len(starts) \div 2) |->
             IF RunLength(line, starts[2 * j - 1]) = d
             THEN <<SubSeq(line, starts[2 * j - 1], starts[2 * j] + d - 1)>>
             ELSE <<>>])
\* The same over the lines of a document.
AllSpansOf(ls, d) == Flatten([k \in 1..Len(ls) |-> SpansOf(ls[k], d)])
WithoutAsterisks(line) == SelectSeq(line, LAMBDA c : c # "*")
Asterisks == <<"italic_asterisks", "bold_asterisks", "bold_italic">>

\* C9: when the emphasis pass has returned from a document whose lines are
\* made of spans and plain text, every line is left without its asterisks
\* and every span is logged once, under the category of its delimiter and
\* under no other; whenever the italic round is about to run, no match of
\* the italic pattern touches another asterisk; and the example of the
\* specification gives "bold and italic and both" with one entry in each of
\* the three categories.
C9_EmphasisOrder ==
  /\ pc = "returned" /\ (\A k \in 1..Len(lines) : MadeOfSpans(lines[k])) =>
       /\ text = JoinLines([k \in 1..Len(lines) |-> WithoutAsterisks(lines[k])])
       /\ logger.enabled =>
            /\ \A d \in 1..3 : Section(logger, Asterisks[d]) = AllSpansOf(lines, d)
            /\ SectionNames(logger)
                 = {Asterisks[d] : d \in {n \in 1..3 : AllSpansOf(lines, n) # <<>>}}
  /\ pc = "for line in lines" /\ loop.round = 4 =>
       \A k \in 1..Len(Matches(ItalicAsterisksRe, processed_line)) :
         LET m == Matches(ItalicAsterisksRe, processed_line)[k] IN
         /\ m.start > 1 => processed_line[m.start - 1] # "*"
         /\ m.end <= Len(processed_line) => processed_line[m.end] # "*"
  /\ pc = "returned" /\ before = Str("**bold** and *italic* and ***both***") =>
       /\ text = Str("bold and italic and both")
       /\ logger.enabled =>
            /\ Section(logger, "bold_asterisks") = <<Str("**bold**")>>
            /\ Section(logger, "italic_asterisks") = <<Str("*italic*")>>
            /\ Section(logger, "bold_italic") = <<Str("***both***")>>

\* The example of the specification went through the pass.
C9_Witness ==
  /\ pc = "returned"
  /\ logger.enabled
  /\ before = Str("**bold** and *italic* and ***both***")
  /\ Len(logger.sections) = 3

\* ------------------------------------------------------------------------
\* StrippedContentLogger under any sequence of log calls
\* ------------------------------------------------------------------------

\* The most log calls made on one ledger.
MaxCalls == 4

LedgerNames == {"links", "images"}

\* Fragments that are empty, blank, bare and padded.
LedgerContents == {<<>>, Str(" \n"), Str("x"), Str(" y ")}

InitLedger ==
  /\ pc = "ledger"
  /\ logger \in {NewLogger(FALSE), NewLogger(TRUE)}
  /\ text = <<>>
  /\ stderr = <<>>
  /\ lines = <<>>
  /\ i = 0
  /\ loop = CodeBlockStart(None)
  /\ Idle

\* logger.log(step_name, removed_content)
LogCall ==
  /\ Len(calls) < MaxCalls
  /\ \E step_name \in LedgerNames, removed_content \in LedgerContents :
       /\ logger' = Log(logger, step_name, removed_content)
       /\ calls' = Append(calls, <<step_name, removed_content>>)
  /\ UNCHANGED <<pc, markdown_content, debug, text, before, stderr, stdout, lines, i,
                 loop, processed_line>>

NextLedger == LogCall

SpecLedger == InitLedger /\ [][NextLedger]_vars

\* The calls the ledger accepts: it is enabled and the fragment is not blank.
Accepted(call) == logger.enabled /\ Strip(call[2]) # <<>>
\* The fragments of the accepted calls of one category, in call order.
AcceptedUnder(step_name) ==
  LET kept == SelectSeq(calls, LAMBDA c : Accepted(c) /\ c[1] = step_name) IN
  [k \in 1..Len(kept) |-> kept[k][2]]
\* The first accepted call of a category.
FirstSeen(step_name) ==
  CHOOSE k \in 1..Len(calls) :
    /\ Accepted(calls[k]) /\ calls[k][1] = step_name
    /\ \A h \in 1..(k - 1) : ~(Accepted(calls[h]) /\ calls[h][1] = step_name)

LedgerWellFormed ==
  /\ \A k \in 1..Len(logger.sections) :
       /\ logger.sections[k].items # <<>>
       /\ \A n \in 1..Len(logger.sections[k].items) :
            Strip(logger.sections[k].items[n]) # <<>>
       /\ logger.sections[k].items = AcceptedUnder(logger.sections[k].name)
  /\ \A step_name \in LedgerNames :
       Section(logger, step_name) = AcceptedUnder(step_name)
  /\ \A j, k \in 1..Len(logger.sections) :
       j < k => FirstSeen(logger.sections[j].name) < FirstSeen(logger.sections[k].name)
  /\ ~logger.enabled => logger.sections = <<>>

\* A step keeps every category where it is and every list as the start of
\* what it becomes.
LedgerAppendOnly ==
  /\ Len(logger'.sections) >= Len(logger.sections)
  /\ \A k \in 1..Len(logger.sections) :
       /\ logger'.sections[k].name = logger.sections[k].name
       /\ Len(logger'.sections[k].items) >= Len(logger.sections[k].items)
       /\ SubSeq(logger'.sections[k].items, 1, Len(logger.sections[k].items))
            = logger.sections[k].items

\* C10: after any sequence of log calls no stored fragment is blank, no
\* category has an empty list, every category holds the fragments of its
\* accepted calls in call order, the categories stand in the order in which
\* they were first seen, a disabled ledger is empty; and every call leaves
\* the categories in place and only appends to their lists.
C10_LedgerInvariant == []LedgerWellFormed /\ [][LedgerAppendOnly]_vars

\* Two categories, one of them with two fragments, after a call that was
\* turned down.
C10_Witness ==
  /\ Len(logger.sections) = 2
  /\ \E k \in 1..2 : Len(logger.sections[k].items) = 2
  /\ \E k \in 1..Len(calls) : ~Accepted(calls[k])

\* ------------------------------------------------------------------------
\* Properties of convert_markdown_to_text
\* ------------------------------------------------------------------------

\* The places of the call in the order it passes them.
PcOrder == <<"call">> \o StepNames \o <<"return", "done">>
PcRank(p) ==
  IF \E k \in 1..Len(PcOrder) : PcOrder[k] = p
  THEN CHOOSE k \in 1..Len(PcOrder) : PcOrder[k] = p
  ELSE 0

\* The step the call stands before returns, and returns a string.
NextStepReturns ==
  \A k \in 1..NumSteps :
    pc = StepPc[k] =>
      /\ ~Raised(Steps(k, text, logger))
      /\ Steps(k, text, logger).text \in Seq(STRING)

\* C1: for every document, with no ledger, a disabled or an enabled one, and
\* debug on or off, the call is never at an error, always at one of the
\* places of its course, the step it stands before returns normally, every
\* step takes it one place on (so it passes each step once and stops), and
\* what it returns is a string.
C1_ReturnsOnEveryInput ==
  /\ [](/\ pc # "error"
        /\ PcRank(pc) >= 1
        /\ NextStepReturns
        /\ pc = "done" => text \in Seq(STRING))
  /\ [][PcRank(pc') = PcRank(pc) + 1]_vars

\* The call returned from a document in the JSON-like wrapper whose text ends
\* inside a fence.
C1_Witness ==
  /\ pc = "done"
  /\ StartsWith(markdown_content, <<Quote>>)
  /\ Contains(markdown_content, ":")
  /\ stderr # <<>>

\* C4: after the link and image step every image and every link of a line
\* is replaced by its label, and images and links hold, for every
\* occurrence in turn, that occurrence's own fragment with its delimiters and
\* target.
C4_EachOccurrenceLogged ==
  pc = "Step 7 - Task lists" /\ logger.enabled =>
    LET ls == SplitLines(before) IN
    /\ text = JoinLines([k \in 1..Len(ls) |->
                           ReSub(LinkRe, 1, ReSub(ImageRe, 1, ls[k]))])
    /\ Section(logger, "images")
         = Flatten([k \in 1..Len(ls) |-> FindAll(ImageRe, ls[k], 0)])
    /\ Section(logger, "links")
         = Flatten([k \in 1..Len(ls) |->
                      FindAll(LinkRe, ReSub(ImageRe, 1, ls[k]), 0)])

\* C5: the call turns \*literal\* into *literal* and leaves \q as it is.
C5_EscapesResolved ==
  pc = "done" =>
    /\ markdown_content = Str("\\*literal\\*") => text = Str("*literal*")
    /\ markdown_content = Str("\\q") => text = Str("\\q")

\* C6: the text the call returns holds no three newlines in a row, none of
\* its lines starts or ends with whitespace, and neither does the text.
C6_WhitespaceNormalised ==
  pc = "done" =>
    /\ \A k \in 1..(Len(text) - 2) : SubSeq(text, k, k + 2) # <<NL, NL, NL>>
    /\ \A k \in 1..Len(SplitLines(text)) :
         Strip(SplitLines(text)[k]) = SplitLines(text)[k]
    /\ Strip(text) = text

\* C7: converting the text the call returns gives that text again, unless
\* one of its lines matches the horizontal-rule pattern.
C7_Idempotent ==
  pc = "done" /\ (\A k \in 1..Len(SplitLines(text)) :
                    ~IsHorizontalRule(SplitLines(text)[k])) =>
    ConvertText(text) = text

\* The lists step has acted: before is what it found, text what it left.
AfterLists == pc = "Step 9 - Escaped characters"

\* The pattern re applied to every line of old by itself gives new: the two
\* texts have the same number of lines, a line that starts, after
\* indentation, with a marker, whitespace and content on that line has lost
\* the marker prefix, and every other line is as it was.
OnlyMarkerPrefixes(re, old, new) ==
  /\ Len(SplitLines(new)) = Len(SplitLines(old))
  /\ \A k \in 1..Len(SplitLines(old)) :
       k <= Len(SplitLines(new)) =>
         SplitLines(new)[k] = ReSub(re, 1, SplitLines(old)[k])

\* C11: the unordered and then the ordered sub-pass of the lists step each
\* keep the number of lines and change only the lines that start with a
\* marker, whitespace and content on the same line, from which they remove
\* the marker prefix alone.
C11_OnlyListLinesChange ==
  AfterLists =>
    /\ OnlyMarkerPrefixes(UnorderedRe, before, UnorderedLists(before, logger).text)
    /\ OnlyMarkerPrefixes(OrderedRe, UnorderedLists(before, logger).text, text)

\* The blockquote step has acted: before is what it found, text what it left.
AfterBlockquotes == pc = "Step 11 - Horizontal rules"

\* The leading run of a line: its indentation, > markers and the whitespace
\* after them, up to the first character that is neither.
QuoteRun(line) ==
  SubSeq(line, 1, RunLen(In(Whitespace \cup {">"}), line, 1, Unbounded))

\* The line has a leading run of > markers.
HasLeadingQuote(line) == Contains(QuoteRun(line), ">")

\* The number of > markers in s.
Markers(s) == Cardinality({k \in 1..Len(s) : s[k] = ">"})

\* The line with its leading run replaced by one space more than the run has
\* markers; a line without a leading marker as it is.
Requoted(line) ==
  IF HasLeadingQuote(line)
  THEN Spaces(Markers(QuoteRun(line)) + 1)
       \o SubSeq(line, Len(QuoteRun(line)) + 1, Len(line))
  ELSE line

\* The leading runs of the lines that have a leading marker, in order.
QuoteRuns(ls) ==
  [k \in 1..Len(SelectSeq(ls, HasLeadingQuote)) |->
     QuoteRun(SelectSeq(ls, HasLeadingQuote)[k])]

\* The blockquote step logged the leading run of every line that has one,
\* and nothing else.
QuoteRunsLogged ==
  AfterBlockquotes /\ logger.enabled =>
    Section(logger, "blockquotes") = QuoteRuns(SplitLines(before))

\* C12: the blockquote step replaces the leading run of k > markers of a
\* line by k + 1 spaces, k counting the markers of the leading run only,
\* logs the run it removed under blockquotes, and leaves a line without a
\* leading marker unchanged and unlogged.
C12_LeadingRunReplaced ==
  AfterBlockquotes =>
    /\ text = JoinLines([k \in 1..Len(SplitLines(before)) |->
                          Requoted(SplitLines(before)[k])])
    /\ QuoteRunsLogged

\* The horizontal-rule step has acted: before is what it found, text what it
\* left.
AfterHorizontalRules == pc = "Step 12 - Tables (conservative)"

\* The trimmed line is one or more of the symbol c, with nothing but spaces
\* between them.
RepeatsSymbol(line, c) ==
  /\ Strip(line) # <<>>
  /\ Head(Strip(line)) = c
  /\ \A k \in 1..Len(Strip(line)) : Strip(line)[k] \in {c, " "}

\* The line is a rule of one single symbol.
SingleSymbolRule(line) == \E c \in RuleChars : RepeatsSymbol(line, c)

\* The lines of ls that are no rule of one symbol, in order.
NotSingleSymbolRule(line) == ~SingleSymbolRule(line)
WithoutRules(ls) == SelectSeq(ls, NotSingleSymbolRule)

\* C13: the horizontal-rule step drops, and logs under horizontal_rules,
\* exactly the lines whose trimmed form repeats one single symbol of - * _
\* with nothing but spaces between; a line mixing two of the symbols and
\* every other line is kept as it is.
C13_SingleSymbolRulesDropped ==
  AfterHorizontalRules =>
    /\ text = JoinLines(WithoutRules(SplitLines(before)))
    /\ logger.enabled =>
         Section(logger, "horizontal_rules")
           = SelectSeq(SplitLines(before), SingleSymbolRule)

\* The interior of an occurrence of the kind: what stands between its opening
\* delimiter and the next character that closes it.
SpanInterior(kind, item) ==
  SubSeq(item, Len(kind.open) + 1,
         Len(kind.open) + RunLen(NotIn({kind.stop}), item, Len(kind.open) + 1, Unbounded))

\* Every occurrence logged for the kind has an interior within the cap and
\* on one line.
LoggedWithinCap(kind) ==
  \A k \in 1..Len(Section(logger, kind.step_name)) :
    /\ Len(SpanInterior(kind, Section(logger, kind.step_name)[k])) <= SpanCap
    /\ ~Contains(SpanInterior(kind, Section(logger, kind.step_name)[k]), NL)

\* The kind's pass has acted on a text that is one occurrence with an
\* interior longer than the cap, and has left it as it was.
OverlongKept(kind) ==
  pc = kind.after /\ before = LongSpan(kind) => text = before

\* C14: every pass over an inline span of bounded length (inline code,
\* emphasis, images, links, strikethrough, footnote references) logs only
\* occurrences whose interior is at most the cap of 125 characters long and
\* on one line, and leaves an occurrence with a longer interior unmodified.
C14_SpansWithinCap ==
  pc # "call" => \A kind \in SpanKinds : LoggedWithinCap(kind) /\ OverlongKept(kind)

====
